---- MODULE Spec2Model ----
(***************************************************************************)
(* Model of the lab creation pipeline with the RCA retry loop, as built by *)
(* create_lab_pipeline(include_validation=True, include_rca=True) in       *)
(* orchestrator/adk_agents/pipeline.py, and of the agents it sequences:    *)
(* NetworkDesigner, LabGuideAuthor, SessionStateWriterAgent,               *)
(* ValidatorAgent, RCAAgent and PatchRouterAgent.                          *)
(*                                                                         *)
(* One execution is one sequential walk over the agents: the outer         *)
(* SequentialAgent runs its sub-agents once, in order; its last sub-agent  *)
(* is the LoopAgent "ValidationRetryLoop", which runs its own sub-agents   *)
(* in order, max_iterations times, unless an event with actions.escalate   *)
(* is yielded.  What a language model writes is an input of the model: a   *)
(* choice among the shapes of text the agents' code distinguishes.         *)
(***************************************************************************)
EXTENDS Integers, Sequences, FiniteSets, TLC

VARIABLES
    pc,              \* index of the running sub-agent of the outer SequentialAgent
    loop_idx,        \* index of the running sub-agent of the LoopAgent (0: not in it)
    times_looped,    \* the LoopAgent's count of completed iterations
    state,           \* session.state
    input,           \* context.input: the text the previous agent yielded
    runs,            \* per agent kind, the number of times it has run
    jobsSubmitted,   \* Cloud Run job executions started by _submit_job
    observed,        \* per artifact key: the last state writer for it found or put it there
    authorRead,      \* the design_output value the author started from
    hist             \* history of the execution, kept for the properties

\* One call of a poll function and its caller (ValidatorAgent._poll_job in
\* adk_agents/validator.py, poll_job_status in agents/validator.py).
VARIABLES
    pollFn,           \* which function is running, "none" outside a call
    max_wait_seconds, \* its max_wait_seconds argument
    signalAt,         \* second at which the completion signal becomes present
    elapsed,          \* the loop's elapsed
    checks,           \* presence checks made so far
    pollPc,           \* "idle", "loop", "returned" or "caller_done"
    pollReturn,       \* what the function returned, and whether by timeout
    callerOutcome     \* what the caller did with the returned value

pipelineVars == <<pc, loop_idx, times_looped, state, input, runs, jobsSubmitted,
                  observed, authorRead, hist>>

pollVars == <<pollFn, max_wait_seconds, signalAt, elapsed, checks, pollPc,
              pollReturn, callerOutcome>>

\* One extraction: a structured value, the form it is presented in, and what
\* the state writer and extract_json_from_markdown (api_server.py) make of it.
VARIABLES
    artifactKey,      \* the output_key of the writer instance
    value,            \* the structured value
    presentation,     \* "value", "raw" or "fenced"
    extractPc,        \* "input" or "done"
    written,          \* what the state writer put under artifactKey
    extracted         \* what extract_json_from_markdown returned

extractVars ==
    <<artifactKey, value, presentation, extractPc, written, extracted>>

\* The REST server (api_server.py), for one lab_id: its record in the labs
\* registry, the ADK session of that id, and the background tasks started for
\* it.  A task runs from one await that suspends it to the next; the runs of
\* the agents block the event loop, so a step holds them whole.
VARIABLES
    labs,             \* labs[lab_id]; status "none" while the lab does not exist
    session,          \* session.state of the lab's session
    pending_messages, \* labs[lab_id]["pending_messages"]
    tasks,            \* background tasks: kind, position, arguments
    apiHist           \* history of the lab, kept for the properties

apiVars == <<labs, session, pending_messages, tasks, apiHist>>

\* Several executions side by side: the wall clock that lab_id and exercise_id
\* are taken from, the labs registry with more than one create request, and
\* the bucket and job executions shared by the validation attempts.
VARIABLES
    now,              \* int(time.time())
    registry,         \* labs: lab_id -> record
    requests,         \* per create request: the lab_id returned, its task's position
    response,         \* the last answer of send_message: lab_id and status code
    attempts,         \* per validation attempt: position, exercise_id, outcome
    pending,          \* the blob pending/latest/spec.json
    archive,          \* the blobs {execution_id}/spec.json
    summary,          \* the blobs {execution_id}/summary.json
    results,          \* per exercise_id: is there a results.json under it
    executions        \* Cloud Run job executions, in order of creation

registryVars == <<registry, requests, response>>

jobVars == <<attempts, pending, archive, summary, results, executions>>

\* One call of create_design (agents/designer.py) or create_lab_guide
\* (agents/author.py), the functions that lint what they generate.
VARIABLES
    lintFn,           \* which function is running, "none" outside a call
    max_retries,      \* its max_retries argument
    lint_attempt,     \* the loop variable of `for attempt in range(...)`
    lintPc,           \* where the call is
    lintHist          \* attempts logged, and the latest lint results

lintVars == <<lintFn, max_retries, lint_attempt, lintPc, lintHist>>

sharedVars == <<now, registryVars, jobVars, lintVars>>

\* One call of ValidatorAgent._convert_payload and one grouping of a
\* transcript by fetch_validation_artifacts (tools/artifacts.py).
VARIABLES
    draft_guide,          \* draft_guide["device_sections"]
    initial_configs,      \* design_output["initial_configs"]
    sections_done,        \* sections the loop has been through
    steps,                \* the payload's steps
    transcript,           \* the entries of transcript.json
    entries_done,         \* entries the loop has been through
    device_transcripts,   \* per device, the lines built so far
    device_last_prompt    \* per device, the prompt of its latest entry

payloadVars == <<draft_guide, initial_configs, sections_done, steps>>

transcriptVars ==
    <<transcript, entries_done, device_transcripts, device_last_prompt>>

artifactVars == <<payloadVars, transcriptVars>>

vars ==
    <<pipelineVars, pollVars, extractVars, apiVars, sharedVars, artifactVars>>

\* what the pipeline's agents leave alone
outsidePipeline == <<pollVars, extractVars, apiVars, sharedVars,
     artifactVars>>

(***************************************************************************)
(* Program constants.                                                      *)
(***************************************************************************)
max_iterations == 3

\* sub_agents of LabCreationPipelineWithRCA
MisorderedPipeline ==
    <<"planner", "designer", "author", "design_state_writer",
      "draft_state_writer", "retry_loop">>

LabCreationPipelineWithRCA ==
    <<"planner", "designer", "design_state_writer", "author",
      "draft_state_writer", "retry_loop">>

\* sub_agents of ValidationRetryLoop
ValidationRetryLoop ==
    <<"validator", "rca_agent", "patch_router_agent",
      "retry_design_writer", "retry_draft_writer">>

\* output_key of each state writer instance
WriterKey(agent) ==
    IF agent \in {"design_state_writer", "retry_design_writer"}
    THEN "design_output" ELSE "draft_lab_guide"

ArtifactKeys == {"design_output", "draft_lab_guide"}

(***************************************************************************)
(* Values.                                                                 *)
(***************************************************************************)
\* The shapes of text a generation agent may answer with.
\*   json      a bare JSON object holding the fields the writer detects
\*   fenced    that object inside a ``` fence
\*   nofields  a JSON object lacking one of those fields
\*   garbage   text that is no JSON and holds no fenced object
\*   badjson   a fence around braces that are not valid JSON
\*   blank     white space and nothing else
\*   empty     no text
TextForms ==
    {"json", "fenced", "nofields", "garbage", "badjson", "blank", "empty"}

\* kind names what the text is: the artifact key it is an answer for, or
\* "signal" for the router's routing text.
NoText == [form |-> "empty", gen |-> 0, kind |-> "none"]

\* An artifact value in session.state: absent, the raw text stored through
\* output_key (one of the text forms), or a parsed dict (form "dict").  A dict
\* loaded from ./output by the validator has form "file".
Absent == [form |-> "absent", gen |-> 0]

Truthy(v) == v.form # "absent"

NoResult ==
    [kind |-> "absent", success |-> FALSE, attempt |-> 0,
     design |-> Absent, draft |-> Absent, error |-> "none"]

RootCauseTypes == {"DESIGN", "INSTRUCTION", "OBJECTIVES"}
TargetAgents   == {"designer", "author", "planner"}
Confidences    == {"high", "medium", "low"}

\* PatchPlan: every combination of the schema's Literal fields is a valid plan.
PatchPlan ==
    [present : {TRUE}, root_cause_type : RootCauseTypes,
     target_agent : TargetAgents, should_retry : BOOLEAN,
     confidence : Confidences]

NoPlan ==
    [present |-> FALSE, root_cause_type |-> "none", target_agent |-> "none",
     should_retry |-> FALSE, confidence |-> "none"]

(***************************************************************************)
(* Position in the pipeline.                                               *)
(***************************************************************************)
Done == pc > Len(LabCreationPipelineWithRCA)

Current ==
    IF Done THEN "done"
    ELSE IF LabCreationPipelineWithRCA[pc] = "retry_loop"
         THEN ValidationRetryLoop[loop_idx]
         ELSE LabCreationPipelineWithRCA[pc]

InLoop == ~Done /\ LabCreationPipelineWithRCA[pc] = "retry_loop"

\* LoopAgent: while not max_iterations or times_looped < max_iterations
LoopOnceMore(n) == n <= max_iterations

LoopContinues(n) == n < max_iterations

\* The agent that runs after the current one.  escalate is the
\* actions.escalate flag of the events the current agent yielded.
Advance(escalate) ==
    IF ~InLoop
    THEN /\ pc' = pc + 1
         /\ loop_idx' = IF pc + 1 <= Len(LabCreationPipelineWithRCA)
                           /\ LabCreationPipelineWithRCA[pc + 1] = "retry_loop"
                        THEN 1 ELSE 0
         /\ UNCHANGED times_looped
    ELSE IF escalate
    THEN /\ pc' = pc + 1
         /\ loop_idx' = 0
         /\ UNCHANGED times_looped
    ELSE IF loop_idx < Len(ValidationRetryLoop)
    THEN /\ loop_idx' = loop_idx + 1
         /\ UNCHANGED <<pc, times_looped>>
    ELSE /\ times_looped' = times_looped + 1
         /\ IF LoopContinues(times_looped + 1)
            THEN loop_idx' = 1 /\ pc' = pc
            ELSE loop_idx' = 0 /\ pc' = pc + 1

Ran(agent) == [runs EXCEPT ![agent] = @ + 1]

(***************************************************************************)
(* LlmAgent with output_key: the agent yields its final text; the text is  *)
(* put under output_key in session.state, but (session_state_writer.py,    *)
(* module docstring) not reliably before the next agent runs, which is why *)
(* each generation stage is followed by a state writer.  committed says    *)
(* whether the next agent will find it.  An empty text is falsy for every  *)
(* reader, like an absent key.                                             *)
(***************************************************************************)
Stored(old, text, committed) ==
    IF committed /\ text.form # "empty"
    THEN [form |-> text.form, gen |-> text.gen]
    ELSE old

\* planner_agent: output_key="exercise_spec"
Planner ==
    /\ Current = "planner"
    /\ LET text == [form |-> "json", gen |-> 1, kind |-> "exercise_spec"]
       IN /\ state' = [state EXCEPT !.exercise_spec = Stored(@, text, TRUE)]
          /\ input' = text
    /\ runs' = Ran("planner")
    /\ Advance(FALSE)
    /\ UNCHANGED outsidePipeline
    /\ UNCHANGED <<jobsSubmitted, observed, authorRead, hist>>

\* designer_agent: output_key="design_output"
Designer ==
    /\ Current = "designer"
    /\ \E form \in TextForms, committed \in BOOLEAN :
         LET text == [form |-> form, gen |-> runs["designer"] + 1,
                      kind |-> "design_output"]
         IN /\ state' = [state EXCEPT !.design_output = Stored(@, text, committed)]
            /\ input' = text
    /\ runs' = Ran("designer")
    /\ Advance(FALSE)
    /\ UNCHANGED outsidePipeline
    /\ UNCHANGED <<jobsSubmitted, observed, authorRead, hist>>

\* author_agent: reads design_output, output_key="draft_lab_guide"
Author ==
    /\ Current = "author"
    /\ authorRead' = state.design_output
    /\ \E form \in TextForms, committed \in BOOLEAN :
         LET text == [form |-> form, gen |-> runs["author"] + 1,
                      kind |-> "draft_lab_guide"]
         IN /\ state' = [state EXCEPT !.draft_lab_guide = Stored(@, text, committed)]
            /\ input' = text
    /\ runs' = Ran("author")
    /\ Advance(FALSE)
    /\ UNCHANGED outsidePipeline
    /\ UNCHANGED <<jobsSubmitted, observed, hist>>

\* An exception no agent catches ends the run of the pipeline.
Raise ==
    /\ pc' = Len(LabCreationPipelineWithRCA) + 1
    /\ loop_idx' = 0
    /\ UNCHANGED times_looped

(***************************************************************************)
(* SessionStateWriterAgent.run_async                                       *)
(***************************************************************************)
\* json.loads(text), else the first fenced object of the text
ExtractJson(text) ==
    CASE text.form = "json"     -> "parsed"
      [] text.form = "fenced"   -> "parsed"
      [] text.form = "nofields" -> "parsed_other"
      [] text.form = "badjson"  -> "raises"
      [] OTHER                  -> "no_json"

\* all(field in parsed for field in self.detect_by_fields)
HasRequiredFields(text, key) ==
    ExtractJson(text) = "parsed" /\ text.kind = key

WriterKeepingAnyJson(old, text, key) ==
    IF Truthy(old) THEN old
    ELSE IF text.form = "empty" THEN old
    ELSE IF ExtractJson(text) \in {"parsed", "parsed_other"}
    THEN [form |-> "dict", gen |-> text.gen]
    ELSE old

\* a writer without the session_state_already_exists test
WriterOverwriting(old, text, key) ==
    IF text.form = "empty" THEN old
    ELSE IF HasRequiredFields(text, key)
    THEN [form |-> "dict", gen |-> text.gen]
    ELSE old

WriterResult(old, text, key) ==
    IF Truthy(old) THEN old                      \* session_state_already_exists
    ELSE IF text.form = "empty" THEN old         \* no input, or no text in it
    ELSE IF HasRequiredFields(text, key)
    THEN [form |-> "dict", gen |-> text.gen]     \* session_state_written
    ELSE old                                     \* no_json_found, missing fields

\* What the writer logs, by level and event name.
WriterLog(old, text, key) ==
    IF Truthy(old) THEN <<"info", "session_state_already_exists">>
    ELSE IF text.form = "empty"
    THEN <<"warning", "no_input_from_previous_agent">>
    ELSE IF ExtractJson(text) = "no_json" THEN <<"warning", "no_json_found">>
    ELSE IF ExtractJson(text) = "raises"
    THEN <<"error", "session_state_extraction_failed">>
    ELSE IF HasRequiredFields(text, key) THEN <<"info", "session_state_written">>
    ELSE <<"warning", "json_missing_required_fields">>

SessionStateWriter(agent) ==
    /\ Current = agent
    /\ LET key == WriterKey(agent)
           new == WriterResult(state[key], input, key)
       IN /\ state' = [state EXCEPT ![key] = new]
          /\ observed' = [observed EXCEPT ![key] = Truthy(new)]
    /\ runs' = Ran(agent)
    /\ Advance(FALSE)
    /\ UNCHANGED outsidePipeline
    /\ UNCHANGED <<input, jobsSubmitted, authorRead, hist>>

StateWriter ==
    \E agent \in {"design_state_writer", "draft_state_writer",
                  "retry_design_writer", "retry_draft_writer"} :
        SessionStateWriter(agent)

(***************************************************************************)
(* ValidatorAgent.run_async                                                *)
(***************************************************************************)
FromFile == [form |-> "file", gen |-> 0]

\* state.get(key), else ./output/<key>.json when that file loads
ReadInput(v, fileLoads) ==
    IF Truthy(v) THEN v ELSE IF fileLoads THEN FromFile ELSE Absent

\* A str value is stripped of its fence and given to json.loads.
\* A str whose strip() is empty is not given to json.loads.
ParseFails(v) == v.form \in {"garbage", "badjson"}

\* _convert_payload calls get on both its arguments: a value that is still a
\* str there raises AttributeError, outside every try of run_async.
ConvertRaises(v) == v.form = "blank"

\* fetch_validation_artifacts: without results.json it raises
\* FileNotFoundError, with it it returns a ValidationArtifacts object.
FetchArtifacts(resultsPresent) ==
    IF resultsPresent THEN "ValidationArtifacts" ELSE "FileNotFoundError"

\* class ValidationArtifacts defines the properties success, total_steps,
\* passed_steps and failed_steps, and no get method.
ArtifactsHaveGet == FALSE

\* Inside the try of step 5 the validator calls artifacts.get(...): on an
\* object without get this raises AttributeError, and the except branch
\* records the attempt as a failed fetch.
FetchStepRaises(resultsPresent) ==
    \/ FetchArtifacts(resultsPresent) = "FileNotFoundError"
    \/ ~ArtifactsHaveGet

\* The exception the except branch of step 5 puts in the summary as
\* "Artifact fetch failed: ...".
FetchError(resultsPresent) ==
    IF FetchArtifacts(resultsPresent) = "FileNotFoundError"
    THEN "FileNotFoundError"
    ELSE IF ~ArtifactsHaveGet THEN "AttributeError" ELSE "none"

OutcomeTrustingFetch(draft, design, env) ==
    IF ~Truthy(draft) \/ ~Truthy(design) THEN "skipped_missing"
    ELSE IF ParseFails(draft) \/ ParseFails(design) THEN "skipped_parse"
    ELSE IF ConvertRaises(draft) \/ ConvertRaises(design) THEN "raised"
    ELSE IF ~env.submitOk THEN "submit_failed"
    ELSE IF env.poll = "exception" THEN "poll_failed"
    ELSE "fetched"

\* The validation_result the attempt records; env holds what the environment
\* did: [submitOk, poll, resultsPresent, jobOk].
ValidationOutcome(draft, design, env) ==
    IF ~Truthy(draft) \/ ~Truthy(design) THEN "skipped_missing"
    ELSE IF ParseFails(draft) \/ ParseFails(design) THEN "skipped_parse"
    ELSE IF ConvertRaises(draft) \/ ConvertRaises(design) THEN "raised"
    ELSE IF ~env.submitOk THEN "submit_failed"
    ELSE IF env.poll = "exception" THEN "poll_failed"
    ELSE IF FetchStepRaises(env.resultsPresent) THEN "fetch_failed"
    ELSE "fetched"

\* What the job's result object said, for the attempts that got one.
JobVerdict(kind, env) ==
    IF kind \in {"skipped_missing", "skipped_parse", "raised", "submit_failed"}
    THEN "no_job"
    ELSE IF env.resultsPresent /\ env.jobOk THEN "ok" ELSE "not_ok"

Envs ==
    [submitOk : BOOLEAN, poll : {"detected", "timeout", "exception"},
     resultsPresent : BOOLEAN, jobOk : BOOLEAN]

\* Inputs that differ only in what the code never looks at are the same input.
NormalEnvs ==
    {e \in Envs :
        /\ (~e.submitOk => e.poll = "detected" /\ ~e.resultsPresent)
        /\ (e.poll = "exception" => ~e.resultsPresent)
        /\ (~e.resultsPresent => ~e.jobOk)}

\* the session.state key the validator records its result under
ValidatorWritesKey == "validation_result"

Validator ==
    /\ Current = "validator"
    /\ \E fileDraft \in BOOLEAN, fileDesign \in BOOLEAN, env \in NormalEnvs :
         LET draft   == ReadInput(state.draft_lab_guide, fileDraft)
             design  == ReadInput(state.design_output, fileDesign)
             kind    == ValidationOutcome(draft, design, env)
             attempt == runs["validator"] + 1
             result  == [kind |-> kind,
                         success |-> (kind = "fetched" /\ env.jobOk),
                         attempt |-> attempt,
                         design |-> design, draft |-> draft,
                         error |-> IF kind \in {"fetch_failed", "fetched"}
                                   THEN FetchError(env.resultsPresent)
                                   ELSE "none"]
         IN /\ (Truthy(state.draft_lab_guide) => ~fileDraft)
            /\ (Truthy(state.design_output) => ~fileDesign)
            /\ state' = IF kind = "raised" THEN state
                         ELSE [state EXCEPT ![ValidatorWritesKey] = result]
            /\ jobsSubmitted' =
                 IF kind \in {"skipped_missing", "skipped_parse", "raised",
                              "submit_failed"}
                 THEN jobsSubmitted ELSE jobsSubmitted + 1
            /\ hist' = [hist EXCEPT
                 !.firstJob = IF attempt = 1 THEN JobVerdict(kind, env) ELSE @,
                 !.raised = kind = "raised"]
            /\ IF kind = "raised" THEN Raise ELSE Advance(FALSE)
    /\ runs' = Ran("validator")
    /\ UNCHANGED outsidePipeline
    /\ UNCHANGED <<input, observed, authorRead>>

(***************************************************************************)
(* RCAAgent: an LlmAgent whose instruction embeds {validation_result_json?}*)
(* and whose answer is stored under output_key="patch_plan".  The          *)
(* classification is the language model's judgment: any PatchPlan, or no   *)
(* usable plan.  No agent of the pipeline has actions that set escalate.   *)
(***************************************************************************)
\* the session.state key the instruction's placeholder names
RcaReadsKey == "validation_result_json"

RetryInstructionPlan ==
    [present |-> TRUE, root_cause_type |-> "INSTRUCTION",
     target_agent |-> "author", should_retry |-> TRUE, confidence |-> "high"]

RcaAgent ==
    /\ Current = "rca_agent"
    /\ \E plan \in PatchPlan \cup {NoPlan} :
         /\ state' = [state EXCEPT !.patch_plan = plan]
         /\ hist' = [hist EXCEPT
              !.rcaGiven = state[RcaReadsKey],
              !.allRetryInstruction = @ /\ plan = RetryInstructionPlan]
    /\ input' = [form |-> "json", gen |-> runs["rca_agent"] + 1, kind |-> "patch_plan"]
    /\ runs' = Ran("rca_agent")
    /\ Advance(FALSE)
    /\ UNCHANGED outsidePipeline
    /\ UNCHANGED <<jobsSubmitted, observed, authorRead>>

(***************************************************************************)
(* PatchRouterAgent: an LlmAgent without tools or sub-agents; its          *)
(* instruction is the routing procedure, STEP 1 to STEP 4, over the        *)
(* patch_plan it is given, and its answer is stored under                  *)
(* output_key="patch_result".                                              *)
(***************************************************************************)
RouterIgnoringConfidence(plan) ==
    IF ~plan.present THEN "ESCALATE"
    ELSE IF ~plan.should_retry THEN "ESCALATE"
    ELSE IF plan.target_agent = "designer" THEN "DESIGN FIX NEEDED"
    ELSE IF plan.target_agent = "author" THEN "INSTRUCTION FIX NEEDED"
    ELSE "ESCALATE"

PatchRouter(plan) ==
    IF ~plan.present THEN "ESCALATE"                    \* STEP 1
    ELSE IF ~plan.should_retry THEN "ESCALATE"          \* STEP 2
    ELSE IF plan.confidence = "low" THEN "ESCALATE"     \* STEP 3
    ELSE IF plan.target_agent = "designer" THEN "DESIGN FIX NEEDED"
    ELSE IF plan.target_agent = "author" THEN "INSTRUCTION FIX NEEDED"
    ELSE "ESCALATE"                                     \* planner

PatchRouterAgent ==
    /\ Current = "patch_router_agent"
    /\ LET signal == PatchRouter(state.patch_plan)
       IN /\ state' = [state EXCEPT !.patch_result = signal]
    /\ input' = [form |-> "garbage", gen |-> runs["patch_router_agent"] + 1,
                 kind |-> "signal"]
    /\ runs' = Ran("patch_router_agent")
    /\ Advance(FALSE)
    /\ UNCHANGED outsidePipeline
    /\ UNCHANGED <<jobsSubmitted, observed, authorRead, hist>>

(***************************************************************************)
(* The execution.                                                          *)
(***************************************************************************)
Agents ==
    {"planner", "designer", "author", "validator", "rca_agent",
     "patch_router_agent", "design_state_writer", "draft_state_writer",
     "retry_design_writer", "retry_draft_writer"}

\* no poll call is under way
PollIdle ==
    /\ pollFn = "none"
    /\ max_wait_seconds = 0
    /\ signalAt = 0
    /\ elapsed = 0
    /\ checks = 0
    /\ pollPc = "idle"
    /\ pollReturn = [value |-> "none", timeout |-> FALSE]
    /\ callerOutcome = "none"

\* seconds the wall clock advances
MaxNow == 2

\* create requests received by the server
MaxCreates == 2

\* validation attempts made against the one bucket and the one job
MaxAttempts == 2

\* no identifier has been taken from the clock
NoId == 0 - 1

Seconds == 0 .. MaxNow

CreateRequests == 1 .. MaxCreates

Attempts == 1 .. MaxAttempts

\* labs has no entry under the id
NoRecord ==
    [prompt |-> 0, status |-> "none", pending_messages |-> << >>,
     updated_at |-> NoId, updated_by |-> {}]

NoResponse == [lab_id |-> NoId, status_code |-> 0]

NoBlob == [payload |-> 0, run_id |-> NoId]

NoSummary == [job |-> 0, payload |-> 0]

NoAttempt ==
    [validator |-> "none", at |-> "idle", exercise_id |-> NoId,
     completion |-> NoSummary]

Devices == {"r1", "r2"}

\* no lint result yet
NoLint == [attempts |-> 0, topology |-> "none", cli |-> [d \in Devices |-> "none"]]

\* no lab has been created, no validation attempted, the bucket is empty, no
\* design or lab guide is being linted
SharedIdle ==
    /\ lintFn = "none"
    /\ max_retries = 0
    /\ lint_attempt = 0
    /\ lintPc = "idle"
    /\ lintHist = NoLint
    /\ now = 0
    /\ registry = [id \in Seconds |-> NoRecord]
    /\ requests = [r \in CreateRequests |-> [lab_id |-> NoId, at |-> "none"]]
    /\ response = NoResponse
    /\ attempts = [a \in Attempts |-> NoAttempt]
    /\ pending = NoBlob
    /\ archive = [id \in Seconds |-> NoBlob]
    /\ summary = [id \in Seconds |-> NoSummary]
    /\ results = [id \in Seconds |-> FALSE]
    /\ executions = << >>

\* no payload is being converted, no transcript grouped
ArtifactsIdle ==
    /\ draft_guide = << >>
    /\ initial_configs = [d \in Devices |-> << >>]
    /\ sections_done = 0
    /\ steps = << >>
    /\ transcript = << >>
    /\ entries_done = 0
    /\ device_transcripts = [d \in Devices |-> << >>]
    /\ device_last_prompt = [d \in Devices |-> "unset"]

\* background tasks beyond run_pipeline that may be started for the lab
MaxGenerationTasks == 1

TaskIds == 1 .. (1 + MaxGenerationTasks)

NoTask ==
    [kind |-> "none", at |-> "none", dry_run |-> FALSE, enable_rca |-> FALSE,
     turn_count |-> 0]

NoLab ==
    [status |-> "none", error |-> "None", awaiting_user_input |-> FALSE,
     exercise_spec |-> "None", design_output |-> "None",
     draft_lab_guide |-> "None", validation_result |-> "None",
     patch_plan |-> "None"]

NoSession ==
    [created |-> FALSE, exercise_spec |-> FALSE, design_output |-> "absent",
     draft_lab_guide |-> "absent"]

\* the server has started and no lab has been created
ApiIdle ==
    /\ labs = NoLab
    /\ session = NoSession
    /\ pending_messages = << >>
    /\ tasks = [t \in TaskIds |-> NoTask]
    /\ apiHist = [sent |-> 0, parseFailed |-> FALSE, turn_input |-> 0]

\* no extraction is under way
ExtractIdle ==
    /\ artifactKey = "none"
    /\ value = [fields |-> {}, quirk |-> "None"]
    /\ presentation = "value"
    /\ extractPc = "idle"
    /\ written = [fields |-> {}, quirk |-> "None"]
    /\ extracted = [fields |-> {}, quirk |-> "None"]

\* the session as created, before the first agent runs
PipelineIdle ==
    /\ pc = 1
    /\ loop_idx = 0
    /\ times_looped = 0
    /\ state = [exercise_spec |-> Absent, design_output |-> Absent,
                draft_lab_guide |-> Absent, validation_result |-> NoResult,
                validation_result_json |-> NoResult, patch_plan |-> NoPlan,
                patch_result |-> "absent"]
    /\ input = NoText
    /\ runs = [a \in Agents |-> 0]
    /\ jobsSubmitted = 0
    /\ observed = [k \in ArtifactKeys |-> FALSE]
    /\ authorRead = Absent
    /\ hist = [firstJob |-> "none", raised |-> FALSE,
               rcaGiven |-> NoResult, allRetryInstruction |-> TRUE]

Init == PipelineIdle /\ PollIdle /\ ExtractIdle /\ ApiIdle /\ SharedIdle
    /\ ArtifactsIdle

Next ==
    \/ Planner
    \/ Designer
    \/ Author
    \/ StateWriter
    \/ Validator
    \/ RcaAgent
    \/ PatchRouterAgent

Spec == Init /\ [][Next]_vars

\* runs of Designer and Author beyond the first pass of the pipeline
Regenerations ==
    (IF runs["designer"] > 1 THEN runs["designer"] - 1 ELSE 0)
    + (IF runs["author"] > 1 THEN runs["author"] - 1 ELSE 0)

(***************************************************************************)
(* Polling for job completion.  ValidatorAgent._poll_job counts elapsed    *)
(* itself, adding poll_interval after each sleep; poll_job_status of the   *)
(* agents package reads the clock, which here advances by the sleeps.      *)
(* Each function is followed by what its caller does with the value.       *)
(***************************************************************************)
poll_interval == 10

\* max_wait_seconds at the call in ValidatorAgent.run_async
RunAsyncMaxWait == 600

\* largest max_wait_seconds tried besides RunAsyncMaxWait
MaxWaitSeconds == 25

Never == 0 - 1

PollFns == {"_poll_job", "poll_job_status"}

MaxWaits(fn) ==
    IF fn = "_poll_job" THEN (0 .. MaxWaitSeconds) \cup {RunAsyncMaxWait}
    ELSE 0 .. MaxWaitSeconds

\* smallest n with n * d >= m
CeilDiv(m, d) == (m + d - 1) \div d

PollPastDeadline(fn, e, maxWait) == e < maxWait + 3 * poll_interval

\* _poll_job: while elapsed < max_wait_seconds
\* poll_job_status: while True, returning when elapsed > max_wait_seconds
PollContinues(fn, e, maxWait) ==
    IF fn = "_poll_job" THEN e < maxWait ELSE ~(e > maxWait)

\* blob.exists() on summary.json, or all tasks of the execution done
SignalPresent == signalAt # Never /\ signalAt <= elapsed

outsidePoll == <<pipelineVars, extractVars, apiVars, sharedVars,
     artifactVars>>

InitPoll ==
    /\ PipelineIdle
    /\ ExtractIdle
    /\ ApiIdle
    /\ SharedIdle
    /\ ArtifactsIdle
    /\ pollFn \in PollFns
    /\ max_wait_seconds \in MaxWaits(pollFn)
    /\ signalAt \in {Never} \cup
                     {t \in 0 .. (max_wait_seconds + poll_interval) :
                         max_wait_seconds = RunAsyncMaxWait => t % 5 = 0}
    /\ elapsed = 0
    /\ checks = 0
    /\ pollPc = "loop"
    /\ pollReturn = [value |-> "none", timeout |-> FALSE]
    /\ callerOutcome = "none"

\* a check that finds the signal: the function returns
PollDetect ==
    /\ pollPc = "loop"
    /\ PollContinues(pollFn, elapsed, max_wait_seconds)
    /\ SignalPresent
    /\ checks' = checks + 1
    /\ \E jobOk \in BOOLEAN :
         /\ (pollFn = "_poll_job" => jobOk)
         /\ pollReturn' = [value |-> IF jobOk THEN "True" ELSE "False",
                           timeout |-> FALSE]
    /\ pollPc' = "returned"
    /\ UNCHANGED <<pollFn, max_wait_seconds, signalAt, elapsed, callerOutcome>>
    /\ UNCHANGED outsidePoll

\* a check that finds nothing, then asyncio.sleep(poll_interval)
PollSleep ==
    /\ pollPc = "loop"
    /\ PollContinues(pollFn, elapsed, max_wait_seconds)
    /\ ~SignalPresent
    /\ checks' = checks + 1
    /\ elapsed' = elapsed + poll_interval
    /\ UNCHANGED <<pollFn, max_wait_seconds, signalAt, pollPc, pollReturn,
                   callerOutcome>>
    /\ UNCHANGED outsidePoll

\* the loop ends without a signal: return False
PollTimeout ==
    /\ pollPc = "loop"
    /\ ~PollContinues(pollFn, elapsed, max_wait_seconds)
    /\ pollReturn' = [value |-> "False", timeout |-> TRUE]
    /\ pollPc' = "returned"
    /\ UNCHANGED <<pollFn, max_wait_seconds, signalAt, elapsed, checks,
                   callerOutcome>>
    /\ UNCHANGED outsidePoll

\* run_async keeps the value in success and goes on to fetch the artifacts;
\* validate_lab raises RuntimeError when the value is False.
PollCaller ==
    /\ pollPc = "returned"
    /\ callerOutcome' =
         IF pollFn = "poll_job_status" /\ pollReturn.value = "False"
         THEN "RuntimeError" ELSE "fetch"
    /\ pollPc' = "caller_done"
    /\ UNCHANGED <<pollFn, max_wait_seconds, signalAt, elapsed, checks,
                   pollReturn>>
    /\ UNCHANGED outsidePoll

NextPoll ==
    \/ PollDetect
    \/ PollSleep
    \/ PollTimeout
    \/ PollCaller

SpecPoll == InitPoll /\ [][NextPoll]_vars

(***************************************************************************)
(* Extraction of a structured value from what a generation stage           *)
(* answered: the state writer's json.loads-then-fence parse with its       *)
(* detect_by_fields test, and extract_json_from_markdown of api_server.py, *)
(* which tries the fence first.  A value is a JSON object, known by the    *)
(* set of its top-level fields and by what its string values hold:         *)
(*   plain        nothing the fence pattern reacts to                      *)
(*   inner_fence  a string value holding the text ```{}```                 *)
(*   brace_fence  a string value holding a closing brace followed by ```   *)
(***************************************************************************)
FieldNames ==
    {"topology_yaml", "platforms", "initial_configs", "target_configs",
     "title", "device_sections", "objectives"}

Quirks == {"plain", "inner_fence", "brace_fence"}

NoneValue == [fields |-> {}, quirk |-> "None"]

EmptyDict == [fields |-> {}, quirk |-> "plain"]

Dicts == [fields : SUBSET FieldNames, quirk : Quirks]

Presentations == {"value", "raw", "fenced"}

\* detect_by_fields of the two writer instances
detect_by_fields(key) ==
    IF key = "design_output"
    THEN {"topology_yaml", "platforms", "initial_configs"}
    ELSE {"title", "device_sections", "objectives"}

\* the required field set of the artifact type (DesignOutput, DraftLabGuide)
RequiredFields(key) ==
    IF key = "design_output"
    THEN {"topology_yaml", "platforms", "initial_configs", "target_configs"}
    ELSE {"title", "device_sections"}

\* bool(v) of a dict: an empty dict is falsy
Falsy(v) == v = NoneValue \/ v = EmptyDict

\* re.search of the fence pattern, lazy up to the first closing brace that is
\* followed by ```, and json.loads of its group:
\*   "outer"  the group is the whole object
\*   "inner"  the group is the {} inside a string value
\*   "bad"    the group ends inside a string value and is no JSON
\*   "none"   the pattern does not match
FenceMatch(v, p) ==
    IF p = "fenced"
    THEN IF v.quirk = "plain" THEN "outer" ELSE "bad"
    ELSE IF v.quirk = "inner_fence" THEN "inner" ELSE "none"

\* json.loads(text) succeeds on the raw serialization only
JsonLoads(p) == p = "raw"

\* api_server.extract_json_from_markdown
extract_json_from_markdown(v, p) ==
    IF p = "value" THEN (IF Falsy(v) THEN NoneValue ELSE v)
    ELSE IF FenceMatch(v, p) = "outer" THEN v
    ELSE IF FenceMatch(v, p) = "inner" THEN EmptyDict
    ELSE IF JsonLoads(p) THEN v
    ELSE NoneValue

\* the writer's parse: json.loads(text), else the fenced group; a value that
\* is no text gives it nothing to parse
WriterParse(v, p) ==
    IF p = "value" THEN NoneValue
    ELSE IF JsonLoads(p) THEN v
    ELSE IF FenceMatch(v, p) = "outer" THEN v
    ELSE NoneValue

\* all(field in parsed for field in self.detect_by_fields)
has_required_fields(parsed, key) == detect_by_fields(key) \subseteq parsed.fields

\* what the writer puts under its key, the key being absent before
WriterCommit(v, p, key) ==
    IF WriterParse(v, p) # NoneValue /\ has_required_fields(WriterParse(v, p), key)
    THEN WriterParse(v, p) ELSE NoneValue

outsideExtract == <<pipelineVars, pollVars, apiVars, sharedVars,
     artifactVars>>

InitExtract ==
    /\ PipelineIdle
    /\ PollIdle
    /\ ApiIdle
    /\ SharedIdle
    /\ ArtifactsIdle
    /\ artifactKey \in ArtifactKeys
    /\ value \in Dicts
    /\ presentation \in Presentations
    /\ extractPc = "input"
    /\ written = NoneValue
    /\ extracted = NoneValue

\* SessionStateWriterAgent.run_async on the value as the previous agent's
\* output
WriterExtracts ==
    /\ extractPc \in {"input", "api_done"}
    /\ written' = WriterCommit(value, presentation, artifactKey)
    /\ extractPc' = IF extractPc = "input" THEN "writer_done" ELSE "done"
    /\ UNCHANGED <<artifactKey, value, presentation, extracted>>
    /\ UNCHANGED outsideExtract

\* extract_json_from_markdown on the value
ApiExtracts ==
    /\ extractPc \in {"input", "writer_done"}
    /\ extracted' = extract_json_from_markdown(value, presentation)
    /\ extractPc' = IF extractPc = "input" THEN "api_done" ELSE "done"
    /\ UNCHANGED <<artifactKey, value, presentation, written>>
    /\ UNCHANGED outsideExtract

NextExtract == WriterExtracts \/ ApiExtracts

SpecExtract == InitExtract /\ [][NextExtract]_vars

(***************************************************************************)
(* The REST server: endpoints and background tasks of api_server.py.       *)
(***************************************************************************)
max_turns == 10

\* user messages waiting in the lab's queue
MaxMessages == 2

\* the messages are numbered in the order sent, round the clock
MessageIds == 1 .. (MaxMessages + 1)

NextMessageId(sent) == (sent % (MaxMessages + 1)) + 1

\* what a generation agent run through its own Runner leaves behind: text
\* under its output_key that extract_json_from_markdown parses ("json") or
\* does not ("garbage"), or an exception out of the run
AgentOutcomes == {"json", "garbage", "raises"}

\* extract_json_from_markdown of the raw session value, as stored in progress
Parsed(raw) == IF raw = "json" THEN "dict" ELSE "None"

\* labs[lab_id].get("dry_run", False): create_lab stores no such key
LabDryRun == FALSE

NoAttribute == "'ValidatorAgent' object has no attribute 'last_validation_result'"

FreeSlots == {t \in TaskIds \ {1} : tasks[t].kind = "none"}

\* background_tasks.add_task(run_generation_pipeline, lab_id, dry_run)
AddGenerationTask ==
    LET t == CHOOSE u \in FreeSlots : \A w \in FreeSlots : u <= w
    IN [tasks EXCEPT ![t] = [kind |-> "run_generation_pipeline", at |-> "start",
                             dry_run |-> LabDryRun, enable_rca |-> FALSE,
                             turn_count |-> 0]]

\* the except branches of the two background tasks
Failed(lab, msg) == [lab EXCEPT !.status = "failed", !.error = msg]

\* GET /api/labs/{lab_id}/status: the record without its message queues
get_lab_status ==
    [status |-> labs.status, error |-> labs.error,
     awaiting_user_input |-> labs.awaiting_user_input,
     progress |-> [exercise_spec |-> labs.exercise_spec,
                   design_output |-> labs.design_output,
                   draft_lab_guide |-> labs.draft_lab_guide,
                   validation_result |-> labs.validation_result,
                   patch_plan |-> labs.patch_plan]]

outsideApi == <<pipelineVars, pollVars, extractVars, sharedVars,
     artifactVars>>

\* POST /api/labs/create
CreateLab ==
    /\ labs.status = "none"
    /\ labs' = [NoLab EXCEPT !.status = "planner_running"]
    /\ pending_messages' = << >>
    /\ \E dry, rca \in BOOLEAN :
         tasks' = [tasks EXCEPT ![1] = [kind |-> "run_pipeline", at |-> "start",
                                        dry_run |-> dry, enable_rca |-> rca,
                                        turn_count |-> 0]]
    /\ UNCHANGED <<session, apiHist>>
    /\ UNCHANGED outsideApi

\* POST /api/labs/{lab_id}/message
SendMessage ==
    /\ labs.status \in {"awaiting_user_input", "planner_running"}
    /\ Len(pending_messages) < MaxMessages
    /\ pending_messages' = Append(pending_messages, NextMessageId(apiHist.sent))
    /\ apiHist' = [apiHist EXCEPT !.sent = NextMessageId(@)]
    /\ UNCHANGED <<labs, session, tasks>>
    /\ UNCHANGED outsideApi

\* POST /api/labs/{lab_id}/chat: a planner turn on the lab's session; when
\* exercise_spec is then in session state the generation task is added
ChatWithPlanner ==
    /\ labs.status # "none"
    /\ session.created
    /\ \E answered \in BOOLEAN :
         LET spec == session.exercise_spec \/ answered
         IN /\ session' = [session EXCEPT !.exercise_spec = spec]
            /\ IF spec
               THEN /\ FreeSlots # {}
                    /\ labs' = [labs EXCEPT !.exercise_spec = "dict",
                                            !.status = "planner_complete"]
                    /\ tasks' = AddGenerationTask
               ELSE UNCHANGED <<labs, tasks>>
    /\ UNCHANGED <<pending_messages, apiHist>>
    /\ UNCHANGED outsideApi

\* POST /api/labs/{lab_id}/generate
StartGeneration ==
    /\ labs.status # "none"
    /\ session.created
    /\ session.exercise_spec
    /\ labs.status \in {"planner_complete", "completed", "failed"}
    /\ FreeSlots # {}
    /\ tasks' = AddGenerationTask
    /\ labs' = [labs EXCEPT !.status = "generation_starting"]
    /\ UNCHANGED <<session, pending_messages, apiHist>>
    /\ UNCHANGED outsideApi

\* run_pipeline, phase 1: one planner turn, taken at the start and after
\* each user message popped from the queue.  A turn ends with the spec found
\* in the answer (the task goes on to the designer and sleeps there), with a
\* question (the task waits for a message), or with an exception.
RunPipelinePlanner ==
    /\ tasks[1].kind = "run_pipeline"
    /\ \/ tasks[1].at = "start"
       \/ tasks[1].at = "await_user" /\ pending_messages # << >>
    /\ pending_messages' =
         IF tasks[1].at = "await_user" THEN Tail(pending_messages)
         ELSE pending_messages
    /\ IF tasks[1].turn_count >= max_turns
       THEN /\ labs' = Failed([labs EXCEPT !.awaiting_user_input = FALSE],
                              "Planner failed to produce ExerciseSpec after max turns")
            /\ tasks' = [tasks EXCEPT ![1].at = "end"]
            /\ UNCHANGED session
       ELSE \E outcome \in {"spec", "question", "timeout", "raises"},
               stored \in BOOLEAN :
              /\ (outcome = "timeout" => tasks[1].at = "await_user")
              /\ (outcome \in {"timeout", "raises"} => ~stored)
              /\ (outcome = "spec" => stored)
              /\ session' = [session EXCEPT
                    !.created = TRUE,
                    !.exercise_spec = @ \/ stored]
              /\ CASE outcome = "spec" ->
                       /\ labs' = [labs EXCEPT !.exercise_spec = "dict",
                                               !.status = "designer_running",
                                               !.awaiting_user_input = FALSE]
                       /\ tasks' = [tasks EXCEPT ![1].at = "designer",
                                                 ![1].turn_count = 0]
                   [] outcome = "question" ->
                       /\ labs' = [labs EXCEPT !.status = "awaiting_user_input",
                                               !.awaiting_user_input = TRUE]
                       /\ tasks' = [tasks EXCEPT ![1].at = "await_user",
                                                 ![1].turn_count = @ + 1]
                   [] outcome = "timeout" ->
                       /\ labs' = Failed([labs EXCEPT !.awaiting_user_input = FALSE],
                                         "Planner conversation timed out after 5 minutes")
                       /\ tasks' = [tasks EXCEPT ![1].at = "end"]
                   [] outcome = "raises" ->
                       /\ labs' = Failed([labs EXCEPT !.awaiting_user_input = FALSE],
                                         "planner run failed")
                       /\ tasks' = [tasks EXCEPT ![1].at = "end"]
    /\ apiHist' = [apiHist EXCEPT !.turn_input =
         IF tasks[1].turn_count >= max_turns
               \/ labs'.error = "Planner conversation timed out after 5 minutes"
         THEN @
         ELSE IF tasks[1].at = "await_user" THEN Head(pending_messages) ELSE 0]
    /\ UNCHANGED outsideApi

\* a wait for a user message that has no deadline
RunPipelineKeepsWaiting ==
    /\ tasks[1].kind = "run_pipeline"
    /\ tasks[1].at = "await_user"
    /\ pending_messages = << >>
    /\ UNCHANGED vars

\* run_pipeline waiting for a user message for more than 120 seconds
RunPipelineUserTimeout ==
    /\ tasks[1].kind = "run_pipeline"
    /\ tasks[1].at = "await_user"
    /\ pending_messages = << >>
    /\ labs' = Failed(labs, "User did not respond within 2 minutes")
    /\ tasks' = [tasks EXCEPT ![1].at = "end"]
    /\ UNCHANGED <<session, pending_messages, apiHist>>
    /\ UNCHANGED outsideApi

\* run_pipeline: the designer run and the parse of design_output
RunPipelineDesigner ==
    /\ tasks[1].kind = "run_pipeline"
    /\ tasks[1].at = "designer"
    /\ \E out \in AgentOutcomes :
         IF out = "raises"
         THEN /\ labs' = Failed(labs, "designer run failed")
              /\ tasks' = [tasks EXCEPT ![1].at = "end"]
              /\ UNCHANGED <<session, apiHist>>
         ELSE /\ session' = [session EXCEPT !.design_output = out]
              /\ labs' = [labs EXCEPT !.design_output = Parsed(out),
                                      !.status = "designer_complete"]
              /\ apiHist' = [apiHist EXCEPT
                    !.parseFailed = @ \/ Parsed(out) = "None"]
              /\ tasks' = [tasks EXCEPT ![1].at = "designer_complete"]
    /\ UNCHANGED pending_messages
    /\ UNCHANGED outsideApi

RunPipelineAuthorStart ==
    /\ tasks[1].kind = "run_pipeline"
    /\ tasks[1].at = "designer_complete"
    /\ labs' = [labs EXCEPT !.status = "author_running"]
    /\ tasks' = [tasks EXCEPT ![1].at = "author"]
    /\ UNCHANGED <<session, pending_messages, apiHist>>
    /\ UNCHANGED outsideApi

\* run_pipeline: the author run and the parse of draft_lab_guide
RunPipelineAuthor ==
    /\ tasks[1].kind = "run_pipeline"
    /\ tasks[1].at = "author"
    /\ \E out \in AgentOutcomes :
         IF out = "raises"
         THEN /\ labs' = Failed(labs, "author run failed")
              /\ tasks' = [tasks EXCEPT ![1].at = "end"]
              /\ UNCHANGED <<session, apiHist>>
         ELSE /\ session' = [session EXCEPT !.draft_lab_guide = out]
              /\ labs' = [labs EXCEPT !.draft_lab_guide = Parsed(out),
                                      !.status = "author_complete"]
              /\ apiHist' = [apiHist EXCEPT
                    !.parseFailed = @ \/ Parsed(out) = "None"]
              /\ tasks' = [tasks EXCEPT ![1].at = "author_complete"]
    /\ UNCHANGED pending_messages
    /\ UNCHANGED outsideApi

\* run_pipeline after the author: completed at once under dry_run, else on
\* to the validator
RunPipelineAfterAuthor ==
    /\ tasks[1].kind = "run_pipeline"
    /\ tasks[1].at = "author_complete"
    /\ IF tasks[1].dry_run
       THEN /\ labs' = [labs EXCEPT !.status = "completed"]
            /\ tasks' = [tasks EXCEPT ![1].at = "end"]
       ELSE /\ labs' = [labs EXCEPT !.status = "validator_running"]
            /\ tasks' = [tasks EXCEPT ![1].at = "validator"]
    /\ UNCHANGED <<session, pending_messages, apiHist>>
    /\ UNCHANGED outsideApi

\* the validator stage as lines 807-829 go on from a result they have been
\* given: stored in progress, then completed whatever its success flag says
RunPipelineValidatorCompletes ==
    /\ tasks[1].kind = "run_pipeline"
    /\ tasks[1].at = "validator"
    /\ labs' = [labs EXCEPT !.validation_result = "failed",
                            !.status = "completed"]
    /\ tasks' = [tasks EXCEPT ![1].at = "end"]
    /\ UNCHANGED <<session, pending_messages, apiHist>>
    /\ UNCHANGED outsideApi

\* run_pipeline: the validator run, then validator_agent.last_validation_result
RunPipelineValidator ==
    /\ tasks[1].kind = "run_pipeline"
    /\ tasks[1].at = "validator"
    /\ labs' = Failed(labs, NoAttribute)
    /\ tasks' = [tasks EXCEPT ![1].at = "end"]
    /\ UNCHANGED <<session, pending_messages, apiHist>>
    /\ UNCHANGED outsideApi

GenerationTasks == TaskIds \ {1}

\* run_generation_pipeline up to its first sleep: the designer run
GenerationDesigner ==
    \E t \in GenerationTasks :
        /\ tasks[t].kind = "run_generation_pipeline"
        /\ tasks[t].at = "start"
        /\ \E out \in AgentOutcomes :
             IF out = "raises"
             THEN /\ labs' = Failed(labs, "designer run failed")
                  /\ tasks' = [tasks EXCEPT ![t] = NoTask]
                  /\ UNCHANGED session
             ELSE /\ session' = [session EXCEPT !.design_output = out]
                  /\ labs' = [labs EXCEPT !.status = "designer_complete"]
                  /\ tasks' = [tasks EXCEPT ![t].at = "designer_complete"]
        /\ UNCHANGED <<pending_messages, apiHist>>
        /\ UNCHANGED outsideApi

GenerationAuthorStart ==
    \E t \in GenerationTasks :
        /\ tasks[t].kind = "run_generation_pipeline"
        /\ tasks[t].at = "designer_complete"
        /\ labs' = [labs EXCEPT !.status = "author_running"]
        /\ tasks' = [tasks EXCEPT ![t].at = "author"]
        /\ UNCHANGED <<session, pending_messages, apiHist>>
        /\ UNCHANGED outsideApi

GenerationAuthor ==
    \E t \in GenerationTasks :
        /\ tasks[t].kind = "run_generation_pipeline"
        /\ tasks[t].at = "author"
        /\ \E out \in AgentOutcomes :
             IF out = "raises"
             THEN /\ labs' = Failed(labs, "author run failed")
                  /\ tasks' = [tasks EXCEPT ![t] = NoTask]
                  /\ UNCHANGED session
             ELSE /\ session' = [session EXCEPT !.draft_lab_guide = out]
                  /\ labs' = [labs EXCEPT !.status = "author_complete"]
                  /\ tasks' = [tasks EXCEPT ![t].at = "author_complete"]
        /\ UNCHANGED <<pending_messages, apiHist>>
        /\ UNCHANGED outsideApi

\* run_generation_pipeline after the author: the outputs found in session
\* state are parsed into progress; under dry_run the lab is completed, else
\* the validator runs and validator_agent.last_validation_result is read
GenerationFinish ==
    \E t \in GenerationTasks :
        /\ tasks[t].kind = "run_generation_pipeline"
        /\ tasks[t].at = "author_complete"
        /\ LET stored == [labs EXCEPT
                    !.design_output = IF session.design_output = "absent" THEN @
                                      ELSE Parsed(session.design_output),
                    !.draft_lab_guide = IF session.draft_lab_guide = "absent" THEN @
                                        ELSE Parsed(session.draft_lab_guide)]
           IN /\ labs' = IF tasks[t].dry_run
                         THEN [stored EXCEPT !.status = "completed"]
                         ELSE Failed(stored, NoAttribute)
              /\ apiHist' = [apiHist EXCEPT
                    !.parseFailed = \/ @
                                    \/ session.design_output = "garbage"
                                    \/ session.draft_lab_guide = "garbage"]
        /\ tasks' = [tasks EXCEPT ![t] = NoTask]
        /\ UNCHANGED <<session, pending_messages>>
        /\ UNCHANGED outsideApi

InitApi == PipelineIdle /\ PollIdle /\ ExtractIdle /\ ApiIdle /\ SharedIdle
    /\ ArtifactsIdle

NextApi ==
    \/ CreateLab
    \/ SendMessage
    \/ ChatWithPlanner
    \/ StartGeneration
    \/ RunPipelinePlanner
    \/ RunPipelineUserTimeout
    \/ RunPipelineDesigner
    \/ RunPipelineAuthorStart
    \/ RunPipelineAuthor
    \/ RunPipelineAfterAuthor
    \/ RunPipelineValidator
    \/ GenerationDesigner
    \/ GenerationAuthorStart
    \/ GenerationAuthor
    \/ GenerationFinish

SpecApi == InitApi /\ [][NextApi]_vars

\* The event loop runs every background task that is ready: a task resumes
\* when its sleep is over, and a wait for the user ends with a message or at
\* its deadline.  The endpoints are called or not, as the clients please.
run_pipeline ==
    \/ RunPipelinePlanner
    \/ RunPipelineUserTimeout
    \/ RunPipelineDesigner
    \/ RunPipelineAuthorStart
    \/ RunPipelineAuthor
    \/ RunPipelineAfterAuthor
    \/ RunPipelineValidator

run_generation_pipeline ==
    \/ GenerationDesigner
    \/ GenerationAuthorStart
    \/ GenerationAuthor
    \/ GenerationFinish

FairTasks == WF_vars(run_pipeline) /\ WF_vars(run_generation_pipeline)

SpecApiLive == InitApi /\ [][NextApi]_vars /\ FairTasks

(***************************************************************************)
(* Executions side by side: identifiers taken from the clock.              *)
(***************************************************************************)
\* a second passes on the wall clock
Tick ==
    /\ now < MaxNow
    /\ now' = now + 1
    /\ UNCHANGED <<pipelineVars, pollVars, extractVars, apiVars, registryVars,
                   jobVars, lintVars, artifactVars>>

outsideRegistry ==
    <<pipelineVars, pollVars, extractVars, apiVars, jobVars, lintVars,
      artifactVars>>

RegistryMaxMessages == 1

\* POST /api/labs/create: lab_id = f"lab_{int(time.time())}", the record is
\* assigned to labs[lab_id] and run_pipeline is added for it
create_lab ==
    \E r \in CreateRequests :
        /\ requests[r].at = "none"
        /\ registry' = [registry EXCEPT ![now] =
                [prompt |-> r, status |-> "planner_running",
                 pending_messages |-> << >>, updated_at |-> now,
                 updated_by |-> {}]]
        /\ requests' = [requests EXCEPT ![r] = [lab_id |-> now, at |-> "planner"]]
        /\ UNCHANGED <<now, response>>
        /\ UNCHANGED outsideRegistry

AcceptingStatuses == {"awaiting_user_input", "planner_running"}

\* the message is put on the queue of the lab
Enqueue(id) ==
    /\ Len(registry[id].pending_messages) < RegistryMaxMessages
    /\ registry' = [registry EXCEPT
          ![id].pending_messages = Append(@, "message"),
          ![id].updated_at = now]
    /\ response' = [lab_id |-> id, status_code |-> 200]

\* a send_message that puts the message on the queue of any lab id
SendMessageUnchecked ==
    \E id \in Seconds :
        /\ Enqueue(id)
        /\ UNCHANGED <<now, requests>>
        /\ UNCHANGED outsideRegistry

\* POST /api/labs/{lab_id}/message, for the id of a lab or of none
send_message ==
    \E id \in Seconds :
        /\ IF registry[id] = NoRecord
           THEN /\ response' = [lab_id |-> id, status_code |-> 404]
                /\ UNCHANGED registry
           ELSE IF registry[id].status \notin AcceptingStatuses
           THEN /\ response' = [lab_id |-> id, status_code |-> 400]
                /\ UNCHANGED registry
           ELSE Enqueue(id)
        /\ UNCHANGED <<now, requests>>
        /\ UNCHANGED outsideRegistry

\* what the task of request r writes to labs[lab_id]
Update(r, status) ==
    [registry EXCEPT ![requests[r].lab_id].status = status,
                     ![requests[r].lab_id].updated_at = now,
                     ![requests[r].lab_id].updated_by = @ \cup {r}]

\* run_pipeline of request r: a planner turn that ends with a question
run_pipeline_asks ==
    \E r \in CreateRequests :
        /\ requests[r].at = "planner"
        /\ registry' = Update(r, "awaiting_user_input")
        /\ requests' = [requests EXCEPT ![r].at = "await_user"]
        /\ UNCHANGED <<now, response>>
        /\ UNCHANGED outsideRegistry

\* run_pipeline of request r: the wait for a user message, which pops the
\* message from the record's queue or gives up
run_pipeline_waits ==
    \E r \in CreateRequests :
        /\ requests[r].at = "await_user"
        /\ LET lab == registry[requests[r].lab_id]
           IN IF lab.pending_messages # << >>
              THEN /\ registry' = [Update(r, "planner_running") EXCEPT
                          ![requests[r].lab_id].pending_messages = Tail(@)]
                   /\ requests' = [requests EXCEPT ![r].at = "generate"]
              ELSE /\ registry' = Update(r, "failed")
                   /\ requests' = [requests EXCEPT ![r].at = "end"]
        /\ UNCHANGED <<now, response>>
        /\ UNCHANGED outsideRegistry

\* run_pipeline of request r: the planner has the spec, the stages run
run_pipeline_generates ==
    \E r \in CreateRequests :
        /\ requests[r].at \in {"planner", "generate"}
        /\ \E status \in {"completed", "failed"} :
             registry' = Update(r, status)
        /\ requests' = [requests EXCEPT ![r].at = "end"]
        /\ UNCHANGED <<now, response>>
        /\ UNCHANGED outsideRegistry

InitRegistry == PipelineIdle /\ PollIdle /\ ExtractIdle /\ ApiIdle /\ SharedIdle
    /\ ArtifactsIdle

NextRegistry ==
    \/ Tick
    \/ create_lab
    \/ send_message
    \/ run_pipeline_asks
    \/ run_pipeline_waits
    \/ run_pipeline_generates

SpecRegistry == InitRegistry /\ [][NextRegistry]_vars

(***************************************************************************)
(* Validation attempts side by side: one bucket, one Cloud Run job.        *)
(***************************************************************************)
outsideJobs ==
    <<pipelineVars, pollVars, extractVars, apiVars, registryVars, lintVars,
      artifactVars>>

\* ValidatorAgent._convert_payload: exercise_id = f"val-{int(time.time())}",
\* also the payload's run_id and artifact_prefix
ConvertPayload ==
    \E a \in Attempts :
        /\ attempts[a].at = "idle"
        /\ attempts' = [attempts EXCEPT ![a].validator = "ValidatorAgent",
                                        ![a].at = "converted",
                                        ![a].exercise_id = now]
        /\ UNCHANGED <<now, pending, archive, summary, results, executions>>
        /\ UNCHANGED outsideJobs

\* ValidatorAgent._submit_job, the two uploads of the payload
SubmitJobUploads ==
    \E a \in Attempts :
        /\ attempts[a].at = "converted"
        /\ LET blob == [payload |-> a, run_id |-> attempts[a].exercise_id]
           IN /\ pending' = blob
              /\ archive' = [archive EXCEPT ![attempts[a].exercise_id] = blob]
        /\ attempts' = [attempts EXCEPT ![a].at = "uploaded"]
        /\ UNCHANGED <<now, summary, results, executions>>
        /\ UNCHANGED outsideJobs

\* ValidatorAgent._submit_job, gcloud run jobs execute: the execution is
\* created and will read SPEC_GCS_PATH when its container starts
SubmitJobExecutes ==
    \E a \in Attempts :
        /\ attempts[a].at = "uploaded"
        /\ executions' = Append(executions,
                                [by |-> a, spec |-> NoBlob, done |-> FALSE])
        /\ attempts' = [attempts EXCEPT ![a].at = "polling"]
        /\ UNCHANGED <<now, pending, archive, summary, results>>
        /\ UNCHANGED outsideJobs

\* submit_validation_job of validate_lab: execution_id from the clock, the
\* payload handed to the execution in its environment
submit_validation_job ==
    \E a \in Attempts :
        /\ attempts[a].at = "idle"
        /\ executions' = Append(executions,
                                [by |-> a,
                                 spec |-> [payload |-> a, run_id |-> now],
                                 done |-> FALSE])
        /\ attempts' = [attempts EXCEPT ![a].validator = "validate_lab",
                                        ![a].at = "polling",
                                        ![a].exercise_id = now]
        /\ UNCHANGED <<now, pending, archive, summary, results>>
        /\ UNCHANGED outsideJobs

\* the container of an execution starts and reads pending/latest/spec.json
JobReadsSpec ==
    \E j \in DOMAIN executions :
        /\ executions[j].spec = NoBlob
        /\ executions' = [executions EXCEPT ![j].spec = pending]
        /\ UNCHANGED <<now, attempts, pending, archive, summary, results>>
        /\ UNCHANGED outsideJobs

\* what an execution leaves under its payload's prefix when it ends: the
\* results.json of the current runner, the summary.json of the legacy one
RunnerFormats == {"results.json", "summary.json"}

\* the execution ends and writes its result under its payload's prefix
JobWritesSummary ==
    \E j \in DOMAIN executions, format \in RunnerFormats :
        /\ executions[j].spec # NoBlob
        /\ ~executions[j].done
        /\ IF format = "summary.json"
           THEN /\ summary' = [summary EXCEPT ![executions[j].spec.run_id] =
                        [job |-> j, payload |-> executions[j].spec.payload]]
                /\ UNCHANGED results
           ELSE /\ results' = [results EXCEPT ![executions[j].spec.run_id] = TRUE]
                /\ UNCHANGED summary
        /\ executions' = [executions EXCEPT ![j].done = TRUE]
        /\ UNCHANGED <<now, attempts, pending, archive>>
        /\ UNCHANGED outsideJobs

\* ValidatorAgent._poll_job finds {execution_id}/summary.json
PollJobDetects ==
    \E a \in Attempts :
        /\ attempts[a].validator = "ValidatorAgent"
        /\ attempts[a].at = "polling"
        /\ summary[attempts[a].exercise_id] # NoSummary
        /\ attempts' = [attempts EXCEPT
              ![a].at = "completed",
              ![a].completion = summary[attempts[a].exercise_id]]
        /\ UNCHANGED <<now, pending, archive, summary, results, executions>>
        /\ UNCHANGED outsideJobs

\* poll_job_status finds the most recently created execution complete
PollJobStatusDetects ==
    \E a \in Attempts :
        /\ attempts[a].validator = "validate_lab"
        /\ attempts[a].at = "polling"
        /\ LET latest == Len(executions)
           IN /\ executions[latest].done
              /\ attempts' = [attempts EXCEPT
                    ![a].at = "completed",
                    ![a].completion =
                        [job |-> latest,
                         payload |-> executions[latest].spec.payload]]
        /\ UNCHANGED <<now, pending, archive, summary, results, executions>>
        /\ UNCHANGED outsideJobs

\* either poll function gives up
PollGivesUp ==
    \E a \in Attempts :
        /\ attempts[a].at = "polling"
        /\ attempts' = [attempts EXCEPT ![a].at = "timed_out"]
        /\ UNCHANGED <<now, pending, archive, summary, results, executions>>
        /\ UNCHANGED outsideJobs

\* fetch_validation_artifacts, which run_async calls whatever _poll_job
\* returned: it requires {execution_id}/results.json
fetch_validation_artifacts ==
    \E a \in Attempts :
        /\ attempts[a].validator = "ValidatorAgent"
        /\ attempts[a].at \in {"completed", "timed_out"}
        /\ attempts' = [attempts EXCEPT ![a].at =
              IF results[attempts[a].exercise_id]
              THEN "fetched" ELSE "fetch_failed"]
        /\ UNCHANGED <<now, pending, archive, summary, results, executions>>
        /\ UNCHANGED outsideJobs

InitJobs == PipelineIdle /\ PollIdle /\ ExtractIdle /\ ApiIdle /\ SharedIdle
    /\ ArtifactsIdle

NextJobs ==
    \/ Tick
    \/ ConvertPayload
    \/ SubmitJobUploads
    \/ SubmitJobExecutes
    \/ submit_validation_job
    \/ JobReadsSpec
    \/ JobWritesSummary
    \/ PollJobDetects
    \/ PollJobStatusDetects
    \/ PollGivesUp
    \/ fetch_validation_artifacts

SpecJobs == InitJobs /\ [][NextJobs]_vars

(***************************************************************************)
(* ValidatorAgent._convert_payload: the payload's flat steps array.        *)
(***************************************************************************)
\* device sections in a guide
MaxSections == 2

\* steps in a device section
MaxSteps == 2

StepTypes == {"cmd", "verify", "note"}

\* the value of the step at position i of its section
StepValue(i) == IF i = 1 THEN "step 1" ELSE IF i = 2 THEN "step 2" ELSE "step n"

\* the steps lists of a section: every choice of types, a value per position
StepLists ==
    UNION {{[i \in 1 .. n |-> [type |-> types[i], value |-> StepValue(i)]] :
               types \in [1 .. n -> StepTypes]} : n \in 0 .. MaxSteps}

DeviceSections == [device_name : Devices, steps : StepLists]

Guides == UNION {[1 .. n -> DeviceSections] : n \in 0 .. MaxSections}

InitialCommands == {<< >>, <<"enable", "hostname">>}

\* the dict appended for one command of a device
CliStep(device, text) ==
    [type |-> "cli", device |-> device, text |-> text, trigger |-> "enter",
     non_interactive |-> TRUE]

\* for cmd in initial_commands: steps.append(...)
RECURSIVE AppendCommands(_, _, _)
AppendCommands(acc, device, commands) ==
    IF commands = << >> THEN acc
    ELSE AppendCommands(Append(acc, CliStep(device, Head(commands))), device,
                        Tail(commands))

\* a single loop over the section's steps that appends cmd and verify steps
\* as they come
RECURSIVE AppendAuthoredOrder(_, _, _, _)
AppendAuthoredOrder(acc, device, sectionSteps, type) ==
    IF type = "verify" THEN acc
    ELSE IF sectionSteps = << >> THEN acc
    ELSE AppendAuthoredOrder(
            IF Head(sectionSteps).type \in {"cmd", "verify"}
            THEN Append(acc, CliStep(device, Head(sectionSteps).value))
            ELSE acc,
            device, Tail(sectionSteps), type)

\* for step in section.get("steps", []): if step.get("type") == type: append
RECURSIVE AppendStepsOfType(_, _, _, _)
AppendStepsOfType(acc, device, sectionSteps, type) ==
    IF sectionSteps = << >> THEN acc
    ELSE AppendStepsOfType(
            IF Head(sectionSteps).type = type
            THEN Append(acc, CliStep(device, Head(sectionSteps).value))
            ELSE acc,
            device, Tail(sectionSteps), type)

outsidePayload ==
    <<pipelineVars, pollVars, extractVars, apiVars, sharedVars, transcriptVars>>

InitPayload ==
    /\ PipelineIdle
    /\ PollIdle
    /\ ExtractIdle
    /\ ApiIdle
    /\ SharedIdle
    /\ draft_guide \in Guides
    /\ initial_configs \in [Devices -> InitialCommands]
    /\ sections_done = 0
    /\ steps = << >>
    /\ transcript = << >>
    /\ entries_done = 0
    /\ device_transcripts = [d \in Devices |-> << >>]
    /\ device_last_prompt = [d \in Devices |-> "unset"]

\* one pass of the loop over draft_guide["device_sections"]
ConvertSection ==
    /\ sections_done < Len(draft_guide)
    /\ LET section == draft_guide[sections_done + 1]
           device_name == section.device_name
           withInitial ==
               AppendCommands(steps, device_name, initial_configs[device_name])
           withCmd ==
               AppendStepsOfType(withInitial, device_name, section.steps, "cmd")
       IN steps' = AppendStepsOfType(withCmd, device_name, section.steps, "verify")
    /\ sections_done' = sections_done + 1
    /\ UNCHANGED <<draft_guide, initial_configs>>
    /\ UNCHANGED outsidePayload

NextPayload == ConvertSection

SpecPayload == InitPayload /\ [][NextPayload]_vars

(***************************************************************************)
(* fetch_validation_artifacts: the flat transcript grouped per device.     *)
(***************************************************************************)
\* entries in a transcript
MaxEntries == 3

\* resp.prompt of an entry; "" when the entry has none
Prompts == {"", "r1#", "r1(config)#", "r2#", "r2(config)#"}

\* resp.content of an entry; "" when the entry has none
Contents == {"", "output"}

\* step.text of the entry at position i of the log
CommandText(i) ==
    IF i = 1 THEN "command 1" ELSE IF i = 2 THEN "command 2"
    ELSE IF i = 3 THEN "command 3" ELSE "command n"

Transcripts ==
    UNION {{[i \in 1 .. n |-> [device |-> e[i].device, text |-> CommandText(i),
                               content |-> e[i].content, prompt |-> e[i].prompt]] :
               e \in [1 .. n -> [device : Devices, content : Contents,
                                 prompt : Prompts]]} : n \in 0 .. MaxEntries}

\* f"{device}#"
InitialPrompt(device) == IF device = "r1" THEN "r1#" ELSE "r2#"

\* f"{prompt_before}{command}"
CommandLine(prompt_before, command) ==
    [kind |-> "command", prompt |-> prompt_before, text |-> command]

ResponseLine(response_content) ==
    [kind |-> "response", prompt |-> "", text |-> response_content]

\* the prompt of the entry before this one in the log, whatever its device
PromptOfPreviousEntry(device, last_prompt) ==
    IF entries_done = 0 THEN InitialPrompt(device)
    ELSE transcript[entries_done].prompt

\* device_last_prompt.get(device, f"{device}#"), the entry for a device not
\* seen before having just been set to f"{device}#"
PromptBefore(device, last_prompt) ==
    IF last_prompt[device] = "unset" THEN InitialPrompt(device)
    ELSE last_prompt[device]

outsideTranscript ==
    <<pipelineVars, pollVars, extractVars, apiVars, sharedVars, payloadVars>>

InitTranscript ==
    /\ PipelineIdle
    /\ PollIdle
    /\ ExtractIdle
    /\ ApiIdle
    /\ SharedIdle
    /\ draft_guide = << >>
    /\ initial_configs = [d \in Devices |-> << >>]
    /\ sections_done = 0
    /\ steps = << >>
    /\ transcript \in Transcripts
    /\ entries_done = 0
    /\ device_transcripts = [d \in Devices |-> << >>]
    /\ device_last_prompt = [d \in Devices |-> "unset"]

\* one pass of the loop over the transcript's entries
GroupEntry ==
    /\ entries_done < Len(transcript)
    /\ LET entry == transcript[entries_done + 1]
           device == entry.device
           prompt_before == PromptBefore(device, device_last_prompt)
           withCommand ==
               Append(device_transcripts[device],
                      CommandLine(prompt_before, entry.text))
       IN /\ device_transcripts' = [device_transcripts EXCEPT ![device] =
                 IF entry.content # ""
                 THEN Append(withCommand, ResponseLine(entry.content))
                 ELSE withCommand]
          /\ device_last_prompt' =
                 [device_last_prompt EXCEPT ![device] = entry.prompt]
    /\ entries_done' = entries_done + 1
    /\ UNCHANGED transcript
    /\ UNCHANGED outsideTranscript

NextTranscript == GroupEntry

SpecTranscript == InitTranscript /\ [][NextTranscript]_vars

(***************************************************************************)
(* create_design and create_lab_guide of the agents package: generate from *)
(* a template, then lint in a loop of max_retries + 1 passes.  What the    *)
(* linter answers is the environment's choice, pass by pass.               *)
(***************************************************************************)
\* largest max_retries tried
MaxRetries == 2

LintFns == {"create_design", "create_lab_guide"}

\* a device's lint_cli answer: every result ok, some result not ok, or
\* "none" when create_lab_guide skips a section without cmd steps
CliAnswers(fn) ==
    IF fn = "create_design" THEN [Devices -> {"ok", "failed"}]
    ELSE [Devices -> {"ok", "failed", "none"}]

\* where a pass of the loop begins: create_design lints the topology first
PassBegins(fn) == IF fn = "create_design" THEN "lint_topology" ELSE "lint_cli"

RetryOnceMore(a, retries) == a <= retries

\* if attempt < max_retries: fix and go round again, else raise
RetryLeft(a, retries) == a < retries

\* what the lint functions leave alone
outsideLint ==
    <<pipelineVars, pollVars, extractVars, apiVars, now, registryVars, jobVars,
      artifactVars>>

\* the call: template generation, then the first pass begins
LintCall ==
    /\ lintPc = "idle"
    /\ \E fn \in LintFns, retries \in 0 .. MaxRetries :
         /\ lintFn' = fn
         /\ max_retries' = retries
         /\ lintPc' = PassBegins(fn)
    /\ lint_attempt' = 0
    /\ lintHist' = [NoLint EXCEPT !.attempts = 1]
    /\ UNCHANGED outsideLint

\* the pass failed: another pass when one is left, else the exception
FailedPass(topology, cli) ==
    IF RetryLeft(lint_attempt, max_retries)
    THEN /\ lint_attempt' = lint_attempt + 1
         /\ lintPc' = PassBegins(lintFn)
         /\ lintHist' = [attempts |-> lintHist.attempts + 1,
                         topology |-> topology, cli |-> cli]
    ELSE /\ lintPc' = "raised"
         /\ lintHist' = [lintHist EXCEPT !.topology = topology, !.cli = cli]
         /\ UNCHANGED lint_attempt

\* create_design: lint_topology(topology_yaml)
LintTopology ==
    /\ lintPc = "lint_topology"
    /\ \E ok \in BOOLEAN :
         IF ok
         THEN /\ lintPc' = "lint_cli"
              /\ lintHist' = [lintHist EXCEPT !.topology = "ok"]
              /\ UNCHANGED lint_attempt
         ELSE FailedPass("failed", lintHist.cli)
    /\ UNCHANGED <<lintFn, max_retries>>
    /\ UNCHANGED outsideLint

\* lint_cli for each device's commands, then all_ok decides
LintCli ==
    /\ lintPc = "lint_cli"
    /\ \E cli \in CliAnswers(lintFn) :
         IF \A d \in Devices : cli[d] # "failed"
         THEN /\ lintPc' = "returned"
              /\ lintHist' = [lintHist EXCEPT !.cli = cli]
              /\ UNCHANGED lint_attempt
         ELSE FailedPass(lintHist.topology, cli)
    /\ UNCHANGED <<lintFn, max_retries>>
    /\ UNCHANGED outsideLint

InitLint == PipelineIdle /\ PollIdle /\ ExtractIdle /\ ApiIdle /\ SharedIdle
    /\ ArtifactsIdle

NextLint ==
    \/ LintCall
    \/ LintTopology
    \/ LintCli

SpecLint == InitLint /\ [][NextLint]_vars

(***************************************************************************)
(* Properties.                                                             *)
(***************************************************************************)
\* patch_result is the router's answer to the patch_plan now in the store
Routed ==
    runs["rca_agent"] > 0 /\ runs["patch_router_agent"] = runs["rca_agent"]

FixSignals == {"DESIGN FIX NEEDED", "INSTRUCTION FIX NEEDED"}

\* C1: the retry loop runs at most max_iterations iterations, so at most
\* max_iterations validations and at most max_iterations
\* regenerate-then-validate cycles; no stage is regenerated beyond that.
C1_RetryBudget ==
    /\ times_looped <= max_iterations
    /\ runs["validator"] <= max_iterations
    /\ runs["rca_agent"] <= max_iterations
    /\ Regenerations <= max_iterations
    /\ ((Done /\ ~hist.raised) => times_looped = max_iterations)

\* the budget is spent: three failed validations, each answered by a plan
\* that asks for a retry
C1_Witness ==
    /\ Done
    /\ times_looped = max_iterations
    /\ runs["validator"] = max_iterations
    /\ hist.allRetryInstruction
    /\ ~state.validation_result.success

\* C2: if the first validation attempt succeeds, RCA is invoked zero times
\* and exactly one validation job is submitted in the execution.
C2_FirstSuccessEndsExecution ==
    (Done /\ hist.firstJob = "ok") =>
        (runs["rca_agent"] = 0 /\ jobsSubmitted = 1)

\* C3: when every validation fails and every plan is {INSTRUCTION,
\* should_retry, high}, there are exactly max_iterations + 1 validation
\* attempts and exactly max_iterations regenerations.
C3_ExhaustionAfterFourFailures ==
    (Done /\ hist.allRetryInstruction /\ ~state.validation_result.success) =>
        (runs["validator"] = max_iterations + 1 /\ Regenerations = max_iterations)

\* C4: when the router has selected regeneration of Design, by the time the
\* next Validate starts Design and Author have run again, and the store
\* holds a design_output and a draft_lab_guide other than the ones the
\* failed validation read.
C4_DesignRegeneratedBeforeValidate ==
    (Current = "validator" /\ state.patch_result = "DESIGN FIX NEEDED") =>
        /\ runs["designer"] > 1
        /\ runs["author"] > 1
        /\ state.design_output # state.validation_result.design
        /\ state.draft_lab_guide # state.validation_result.draft

\* C5: every accepted PatchPlan with root_cause_type OBJECTIVES has
\* should_retry false and target planner, and no OBJECTIVES plan is routed to
\* a fix.
C5_ObjectivesNeverRetried ==
    state.patch_plan.root_cause_type = "OBJECTIVES" =>
        /\ ~state.patch_plan.should_retry
        /\ state.patch_plan.target_agent = "planner"
        /\ (Routed => state.patch_result = "ESCALATE")

C7_RouterEscalationIsTerminal ==
    Routed =>
        /\ (state.patch_result \in FixSignals =>
               /\ state.patch_plan.should_retry
               /\ state.patch_plan.target_agent \in {"designer", "author"})
        /\ (\/ ~state.patch_plan.present
            \/ ~state.patch_plan.should_retry
            \/ state.patch_plan.target_agent = "planner")
           => /\ state.patch_result = "ESCALATE"
              /\ Regenerations = 0
              /\ Current # "validator"

\* C8: once the router's output is ESCALATE no further validation runs, no
\* job is submitted and no stage is regenerated; a Validate follows only a
\* fix signal.
C8_EscalateStopsLoop ==
    [][state.patch_result = "ESCALATE" =>
          /\ runs'["validator"] = runs["validator"]
          /\ jobsSubmitted' = jobsSubmitted
          /\ runs'["designer"] = runs["designer"]
          /\ runs'["author"] = runs["author"]]_vars

\* C9: the validation result RCA is given is the one the immediately
\* preceding Validate recorded: the key RCA reads is the key the validator
\* writes.
C9_RcaGivenFreshResult ==
    (runs["rca_agent"] > 0 /\ runs["rca_agent"] = runs["validator"]) =>
        (RcaReadsKey = ValidatorWritesKey /\ hist.rcaGiven = state.validation_result)

StateWriters ==
    {"design_state_writer", "draft_state_writer",
     "retry_design_writer", "retry_draft_writer"}

\* the writer's key is absent and its input gives it nothing to put there
NothingToCommit(agent) ==
    /\ ~Truthy(state[WriterKey(agent)])
    /\ ~HasRequiredFields(input, WriterKey(agent))

\* C11, as stated: a state writer whose key is absent and whose input is
\* missing, holds no parsable JSON or lacks fields logs a warning and nothing
\* else, leaves the store unchanged, and the next agent runs.
C11_BarrierOnlyWarns ==
    [][\A agent \in StateWriters :
          (Current = agent /\ NothingToCommit(agent)) =>
              /\ WriterLog(state[WriterKey(agent)], input, WriterKey(agent))[1]
                     = "warning"
              /\ state' = state
              /\ Current' # agent
              /\ runs'[agent] = runs[agent] + 1]_vars

\* C11, amended: in that case the writer logs and does nothing else (a
\* warning, or session_state_extraction_failed at level error when the
\* fenced text is not valid JSON), raises nothing, leaves the store
\* unchanged, and the next agent runs.
C11_BarrierLogsAndProceeds ==
    [][\A agent \in StateWriters :
          (Current = agent /\ NothingToCommit(agent)) =>
              /\ WriterLog(state[WriterKey(agent)], input, WriterKey(agent))[1]
                     \in {"warning", "error"}
              /\ state' = state
              /\ Current' # agent
              /\ runs'[agent] = runs[agent] + 1]_vars

\* the designer's text lacked fields, the writer left design_output absent,
\* and the author ran next
C11_Witness ==
    /\ runs["design_state_writer"] = 1
    /\ input.kind = "design_output"
    /\ input.form = "nofields"
    /\ ~Truthy(state.design_output)
    /\ Current = "author"

\* C12: _poll_job makes at most ceil(maxWait / interval) + 1 presence checks
\* whatever happens, and when no signal appears within maxWait it returns
\* by timeout after ceil(maxWait / interval) checks, give or take one: 60
\* checks for interval 10 and maxWait 600.
C12_PollBoundedByMaxWait ==
    pollFn = "_poll_job" =>
        LET n == CeilDiv(max_wait_seconds, poll_interval)
        IN /\ checks <= n + 1
           /\ elapsed <= max_wait_seconds + poll_interval
           /\ (pollPc \in {"returned", "caller_done"}
                 /\ (signalAt = Never \/ signalAt > max_wait_seconds))
              => /\ pollReturn = [value |-> "False", timeout |-> TRUE]
                 /\ checks >= n - 1
                 /\ checks <= n + 1
                 /\ (max_wait_seconds = RunAsyncMaxWait => checks = 60)

\* the call of run_async, max_wait_seconds=600, ended by timeout
C12_Witness ==
    /\ pollFn = "_poll_job"
    /\ max_wait_seconds = RunAsyncMaxWait
    /\ signalAt = Never
    /\ pollPc = "returned"
    /\ pollReturn.timeout
    /\ checks = 60

\* C13: a poll that ended by timeout is not turned into an exception by its
\* caller: the caller goes on to record the attempt's result.
C13_TimeoutNotRaised ==
    (pollPc = "caller_done" /\ pollReturn.timeout) =>
        callerOutcome # "RuntimeError"

\* RCA has run on the attempt whose result is in the store
Classified == runs["rca_agent"] > 0 /\ runs["rca_agent"] = runs["validator"]

\* C14: when job submission fails, the attempt is recorded with success
\* false and the submission failure, without poll or fetch, and RCA is then
\* invoked on that recorded failure.
C14_SubmitFailureGivenToRca ==
    (state.validation_result.kind = "submit_failed" /\ Classified) =>
        /\ ~state.validation_result.success
        /\ state.validation_result.error = "none"
        /\ hist.rcaGiven = state.validation_result

\* C15: when the result object is missing at fetch time the attempt is
\* recorded as a failed fetch with success false, the validator ends
\* normally, and RCA and then the router run on the attempt.
C15_FetchErrorIsValidationFailure ==
    state.validation_result.error = "FileNotFoundError" =>
        /\ state.validation_result.kind = "fetch_failed"
        /\ ~state.validation_result.success
        /\ (runs["rca_agent"] < runs["validator"] => Current = "rca_agent")
        /\ (Classified /\ runs["patch_router_agent"] < runs["rca_agent"]
               => Current = "patch_router_agent")

\* the first attempt found no results.json, and RCA and the router have run
C15_Witness ==
    /\ state.validation_result.error = "FileNotFoundError"
    /\ state.validation_result.attempt = 1
    /\ Classified
    /\ Routed
    /\ Current = "retry_design_writer"

\* no design_output could be taken from what the designer answered
DesignMalformed ==
    \/ runs["design_state_writer"] > 0 /\ ~observed["design_output"]
    \/ state.design_output.form \in {"garbage", "badjson", "nofields"}

\* C16: when a generation stage's output cannot be parsed into its artifact
\* the pipeline halts: no later stage runs, no job is submitted, RCA is
\* never invoked.
C16_MalformedOutputHalts ==
    DesignMalformed =>
        /\ runs["author"] = 0
        /\ runs["validator"] = 0
        /\ runs["rca_agent"] = 0
        /\ jobsSubmitted = 0

\* C17: what the writer parsed is committed if and only if it holds the full
\* required field set of its artifact type.
C17_CommittedIffRequiredFields ==
    (extractPc \in {"writer_done", "done"}
       /\ WriterParse(value, presentation) # NoneValue) =>
        (written # NoneValue <=> RequiredFields(artifactKey) \subseteq value.fields)

\* C18: extracting from a structured value, from its raw serialization and
\* from its fenced serialization all return the value itself.
C18_ExtractionIdempotent ==
    extractPc \in {"api_done", "done"} => extracted = value


\* the task is between the start of the designer stage and the end of the
\* validator stage of a generation run
ActiveGeneration(t) ==
    \/ tasks[t].kind = "run_generation_pipeline"
    \/ /\ tasks[t].kind = "run_pipeline"
       /\ tasks[t].at \in {"designer", "designer_complete", "author",
                           "author_complete", "validator"}

\* C19: once the lab is in a terminal status, GET status returns with it the
\* parse error message when an agent output could not be parsed, and the
\* PatchPlan analysis when the validator stage has run and failed.
C19_TerminalStatusCarriesAnalysis ==
    labs.status \in {"completed", "failed"} =>
        /\ apiHist.parseFailed => get_lab_status.error # "None"
        /\ labs.error = NoAttribute =>
               get_lab_status.progress.patch_plan # "None"

\* C20: at most one generation run (designer, author, validator) of the lab
\* is in progress at any time, whichever endpoint started it.
C20_OneGenerationAtATime ==
    Cardinality({t \in TaskIds : ActiveGeneration(t)}) <= 1


\* C21: create requests yield distinct lab ids and distinct registry records,
\* and no record is updated by the background pipelines of two requests.
C21_CreatesAreIsolated ==
    /\ \A r1, r2 \in CreateRequests :
         (r1 # r2 /\ requests[r1].at # "none" /\ requests[r2].at # "none") =>
             requests[r1].lab_id # requests[r2].lab_id
    /\ \A id \in Seconds : Cardinality(registry[id].updated_by) <= 1


\* C24: when the 600 seconds of validation polling expire, the execution
\* fails with a timeout error: the validator does not go on as if the job
\* had completed.
C24_PollExpiryFailsExecution ==
    (/\ pollPc = "caller_done"
     /\ pollFn = "_poll_job"
     /\ max_wait_seconds = RunAsyncMaxWait
     /\ pollReturn.timeout) =>
        callerOutcome # "fetch"


\* C22: every job execution reads the payload of the submission that
\* started it, and the completion an attempt takes as its own is that of the
\* execution it started, run on its own payload.
C22_AttemptSeesOwnJob ==
    /\ \A j \in DOMAIN executions :
         executions[j].spec.payload \in {0, executions[j].by}
    /\ \A a \in Attempts :
         attempts[a].at = "completed" =>
             /\ executions[attempts[a].completion.job].by = a
             /\ attempts[a].completion.payload = a

\* C23: distinct attempts have distinct jobIDs, and the archival location
\* keyed by an attempt's jobID holds that attempt's payload.
C23_ArchiveHoldsOwnPayload ==
    /\ \A a, b \in Attempts :
         (a # b /\ attempts[a].exercise_id # NoId) =>
             attempts[a].exercise_id # attempts[b].exercise_id
    /\ \A a \in Attempts :
         (attempts[a].validator = "ValidatorAgent"
            /\ attempts[a].at \notin {"idle", "converted"}) =>
             archive[attempts[a].exercise_id].payload = a


TerminalStatuses == {"completed", "failed"}

\* C25: every execution reaches a terminal status: once a lab is created,
\* there comes a point where its background tasks have ended and the lab is
\* completed or failed.
C25_ReachesTerminalStatus ==
    (labs.status # "none") ~>
        (/\ tasks[1].at = "end"
         /\ \A t \in GenerationTasks : tasks[t].kind = "none"
         /\ labs.status \in TerminalStatuses)

\* the planner loop has used up its turns and the execution has failed
C25_Witness ==
    /\ tasks[1].at = "end"
    /\ tasks[1].turn_count = max_turns
    /\ labs.status = "failed"
    /\ labs.error = "Planner failed to produce ExerciseSpec after max turns"


\* C26: for a lab created with dry_run = TRUE the validator stage never
\* runs, whichever task generates the lab: the lab is never found failed on
\* the read of the validator's result.
C26_DryRunNeverValidates ==
    (tasks[1].kind = "run_pipeline" /\ tasks[1].dry_run) =>
        (labs.status # "validator_running" /\ labs.error # NoAttribute)

\* C27: for a lab created with dry_run = FALSE and enable_rca = TRUE, when
\* run_pipeline has ended on a failed validator stage the PatchPlan of an
\* RCA classification is in the lab's progress.
C27_FailedValidationIsClassified ==
    (/\ tasks[1].kind = "run_pipeline"
     /\ ~tasks[1].dry_run
     /\ tasks[1].enable_rca
     /\ tasks[1].at = "end"
     /\ labs.error = NoAttribute) =>
        get_lab_status.progress.patch_plan # "None"


\* C30: a step that answers a send_message with 200 has put the message on
\* the queue of an existing lab whose status was awaiting_user_input or
\* planner_running; a queue grows in no other step; a step that answers 404
\* was for an id with no lab, one that answers 400 for a lab in another
\* status, and both leave every record (queue, status, updated_at) as it was.
C30_MessageAcceptedOrRejected ==
    [][/\ \A id \in Seconds :
            Len(registry'[id].pending_messages) >
                Len(registry[id].pending_messages) =>
              /\ registry[id].status \in AcceptingStatuses
              /\ response' = [lab_id |-> id, status_code |-> 200]
       /\ response' # response =>
            LET lab == registry[response'.lab_id]
            IN CASE response'.status_code = 404 ->
                      lab = NoRecord /\ registry' = registry
                 [] response'.status_code = 400 ->
                      /\ lab # NoRecord
                      /\ lab.status \notin AcceptingStatuses
                      /\ registry' = registry
                 [] OTHER ->
                      /\ lab.status \in AcceptingStatuses
                      /\ registry'[response'.lab_id].pending_messages =
                            Append(lab.pending_messages, "message")
      ]_vars

\* a message was refused for a lab that had failed, another was queued
C30_Witness ==
    \E id \in Seconds :
        /\ response = [lab_id |-> id, status_code |-> 400]
        /\ registry[id].status = "failed"
        /\ \E other \in Seconds : registry[other].pending_messages # << >>


\* the commands of a list, each tagged with the device
Tagged(device, commands) ==
    [i \in 1 .. Len(commands) |-> [device |-> device, text |-> commands[i]]]

\* the values of the steps of one type, in their order in the section
ValuesOfType(sectionSteps, type) ==
    LET chosen == SelectSeq(sectionSteps, LAMBDA st : st.type = type)
    IN [i \in 1 .. Len(chosen) |-> chosen[i].value]

\* the block a device section stands for
SectionBlock(section) ==
    Tagged(section.device_name, initial_configs[section.device_name])
        \o Tagged(section.device_name, ValuesOfType(section.steps, "cmd"))
        \o Tagged(section.device_name, ValuesOfType(section.steps, "verify"))

RECURSIVE Flattened(_)
Flattened(sections) ==
    IF sections = << >> THEN << >>
    ELSE SectionBlock(Head(sections)) \o Flattened(Tail(sections))

\* C28: the payload's steps are, section after section in guide order, the
\* device's initial commands, then the section's cmd steps, then its verify
\* steps, each group in its own order and each step tagged with the
\* section's device; there is no other step.
C28_StepsFlatInOrder ==
    sections_done = Len(draft_guide) =>
        /\ [i \in 1 .. Len(steps) |->
               [device |-> steps[i].device, text |-> steps[i].text]]
             = Flattened(draft_guide)
        /\ \A i \in 1 .. Len(steps) : steps[i].type = "cli"

\* two sections of different devices converted, the first with a verify
\* step written before a cmd step and initial commands for both devices
C28_Witness ==
    /\ Len(draft_guide) = 2
    /\ sections_done = 2
    /\ draft_guide[1].device_name # draft_guide[2].device_name
    /\ Len(draft_guide[1].steps) = 2
    /\ draft_guide[1].steps[1].type = "verify"
    /\ draft_guide[1].steps[2].type = "cmd"
    /\ \E i \in 1 .. Len(draft_guide[2].steps) :
          draft_guide[2].steps[i].type = "note"
    /\ \A d \in Devices : initial_configs[d] # << >>


\* the entries of one device, in log order
EntriesOf(device) == SelectSeq(transcript, LAMBDA e : e.device = device)

\* the lines that entries k .. of a device's own entries stand for
RECURSIVE LinesFrom(_, _, _)
LinesFrom(device, own, k) ==
    IF k > Len(own) THEN << >>
    ELSE LET before == IF k = 1 THEN InitialPrompt(device) ELSE own[k - 1].prompt
         IN <<CommandLine(before, own[k].text)>>
              \o (IF own[k].content = "" THEN << >>
                  ELSE <<ResponseLine(own[k].content)>>)
              \o LinesFrom(device, own, k + 1)

\* C29: when the log has been grouped, the transcript of each device is the
\* list of that device's commands in log order, each prefixed with the
\* prompt returned by the device's own previous entry (the initial
\* "<device>#" for its first) and followed by its response content; the
\* entries of other devices have no part in it.
C29_TranscriptPerDevice ==
    entries_done = Len(transcript) =>
        \A d \in Devices :
            device_transcripts[d] = LinesFrom(d, EntriesOf(d), 1)

\* a log grouped in which an entry of r2 stands between two entries of r1,
\* each returning a prompt of its own
C29_Witness ==
    /\ Len(transcript) = 3
    /\ entries_done = 3
    /\ transcript[1].device = "r1"
    /\ transcript[2].device = "r2"
    /\ transcript[3].device = "r1"
    /\ transcript[1].prompt = "r1(config)#"
    /\ transcript[2].prompt = "r2#"
    /\ transcript[1].content = "output"


\* C31: a step that takes a message from the queue takes the oldest one and
\* runs a planner turn on it: no message is taken and then dropped, also
\* when the turn limit has been reached.
C31_MessagesReachPlannerInOrder ==
    [][Len(pending_messages') < Len(pending_messages) =>
          /\ pending_messages' = Tail(pending_messages)
          /\ apiHist'.turn_input = Head(pending_messages)
          /\ tasks'[1].turn_count = tasks[1].turn_count + 1
                \/ tasks'[1].at = "designer"
                \/ labs'.error = "planner run failed"
      ]_vars

\* C32: a state writer that runs with its key already in session state
\* leaves the whole store unchanged, whatever its input holds, the two
\* writers of the first pass and the two of the retry loop alike.
C32_WriterKeepsCommittedKey ==
    [][\A agent \in StateWriters :
          (Current = agent /\ Truthy(state[WriterKey(agent)])) =>
              state' = state]_vars

\* the designer's text was committed under design_output as it was, the
\* first-pass writer and then the retry-loop writer ran with the key present,
\* and the store still holds that text, not the dict a writer would put
C32_Witness ==
    /\ Current = "retry_draft_writer"
    /\ runs["design_state_writer"] = 1
    /\ runs["retry_design_writer"] = 1
    /\ state.design_output = [form |-> "json", gen |-> 1]

\* a stored text that json.loads does not accept
Unparsable(v) == v.form \in {"garbage", "badjson", "blank"}

\* C33: when Validate runs with draft_lab_guide or design_output missing
\* from the store and from the file fallback, or holding text that cannot be
\* parsed, it submits no job and records a result with success false and
\* skipped true.
C33_BadInputsSkipValidation ==
    [][Current = "validator" =>
          LET draft   == state.draft_lab_guide
              design  == state.design_output
              result  == state'.validation_result
              skipped == /\ jobsSubmitted' = jobsSubmitted
                         /\ result.kind \in {"skipped_missing", "skipped_parse"}
                         /\ ~result.success
                         /\ result.attempt = runs["validator"] + 1
          IN /\ (Unparsable(draft) \/ Unparsable(design)) => skipped
             /\ ~Truthy(draft) => (skipped \/ result.draft = FromFile)
             /\ ~Truthy(design) => (skipped \/ result.design = FromFile)
      ]_vars

\* C34: create_design and create_lab_guide make at most max_retries + 1
\* lint passes; they return only when the last pass found the topology and
\* every device's commands in order, and raise when the last pass allowed
\* failed; with max_retries = 0 there is exactly one pass.
C34_LintAttemptsBounded ==
    /\ lintPc # "idle" => lintHist.attempts <= max_retries + 1
    /\ lintPc = "returned" =>
          /\ lintFn = "create_design" => lintHist.topology = "ok"
          /\ \A d \in Devices : lintHist.cli[d] # "failed"
    /\ lintPc = "raised" =>
          /\ lintHist.attempts = max_retries + 1
          /\ \/ lintHist.topology = "failed"
             \/ \E d \in Devices : lintHist.cli[d] = "failed"
    /\ (lintPc \in {"returned", "raised"} /\ max_retries = 0) =>
          lintHist.attempts = 1

\* create_design with two retries returned a design on its third pass
C34_Witness ==
    /\ lintFn = "create_design"
    /\ max_retries = 2
    /\ lintPc = "returned"
    /\ lintHist.attempts = 3

\* C35: the object _poll_job waits for is the object the fetch requires: an
\* attempt whose poll reported completion finds the result object, and an
\* attempt whose job has written its results is not left to time out.
C35_PollSignalIsFetchedObject ==
    \A a \in Attempts :
        attempts[a].validator = "ValidatorAgent" =>
            /\ attempts[a].at = "completed" => results[attempts[a].exercise_id]
            /\ (attempts[a].at = "polling" /\ results[attempts[a].exercise_id])
                  => summary[attempts[a].exercise_id] # NoSummary

\* C36: when the completion signal becomes present before max_wait_seconds
\* has elapsed, _poll_job reports completion and not a timeout, also when
\* the signal appears during the last sleep.
C36_SignalBeforeDeadlineIsSeen ==
    (/\ pollFn = "_poll_job"
     /\ pollPc \in {"returned", "caller_done"}
     /\ signalAt # Never
     /\ signalAt < max_wait_seconds) =>
        (pollReturn.value = "True" /\ ~pollReturn.timeout)

\* C37: when the fetch finds the result object, the success flag recorded for
\* the attempt equals the object's ok flag: true for ok=true, false for
\* ok=false.
C37_SuccessEqualsOk ==
    (/\ state.validation_result.attempt = 1
     /\ state.validation_result.kind \in {"fetched", "fetch_failed"}
     /\ state.validation_result.error # "FileNotFoundError") =>
        (state.validation_result.success <=> hist.firstJob = "ok")

C39_ErrorIffFailed ==
    labs.status # "none" =>
        (get_lab_status.error # "None" <=> get_lab_status.status = "failed")

\* C40: conversation.awaiting_user_input is true only while the status is
\* awaiting_user_input, and so false once the lab is failed or completed,
\* also after the wait for the user's answer has timed out.
C40_AwaitingOnlyWhileAsked ==
    get_lab_status.awaiting_user_input =>
        get_lab_status.status = "awaiting_user_input"

====
